---- MODULE Spec2Model ----
(***************************************************************************)
(* A model of ScreenShotTool's document manager (core/document_manager.py) *)
(* and of its hotkey bridge (utils/hotkey_manager.py).                      *)
(*                                                                         *)
(* Spec       : the DocumentManager with one document path on one file     *)
(*              system (the target, its .bak and its .tmp sibling) and an  *)
(*              external editor of the target file.                        *)
(* SpecBridge : the keyboard hook thread and the 500 ms poll of            *)
(*              check_hotkey_status on the main thread.                    *)
(***************************************************************************)
EXTENDS Integers, Sequences, FiniteSets, TLC

VARIABLES
    \* ---- DocumentManager fields (document_manager.py:30-36, 121) ----
    word_doc,                 \* the in-memory document, or None
    word_path,                \* the document's path, or NoPath
    last_modified_time,       \* mtime recorded after create / open / save
    original_paragraphs,      \* paragraph texts taken by save_original_content_info
    original_rels_count,      \* relationship count of the baseline
    original_rel_ids,         \* [set, ids]: the attribute exists only after a save
    current_image_path,       \* the staged capture ("" when none)
    current_text_description, \* the staged caption
    \* ---- the file system ----
    fTarget, fBak, fTmp,      \* the document file, target + ".bak", target + ".tmp"
    clock,                    \* the file system's time; every write takes a new stamp
    \* ---- control ----
    pc,                       \* where the main thread stands in a handler
    caller,                   \* who called save_document: menu | add | close
    waiting,                  \* callers of the save_document calls that wait in their
                              \* conflict dialog, outermost first
    ncap, nedit, nfault,      \* captures taken, external edits done, I/O failures met
    \* ---- observation (history) variables, read by the properties only ----
    g_sync,                   \* the file's mtime right after the last successful create/open/save
    g_base,                   \* the document as of the last successful create/open/save
    obs,                      \* what the current (or last) save_document call saw and did
    quiet,                    \* the last finished operation was a successful save_document
    scen,                     \* progress of the run create -> one captioned append -> reload
    \* ---- HotkeyManager fields (hotkey_manager.py:26-31) ----
    hk_now,                   \* wall clock, in ms
    last_hotkey_time,         \* kind -> time of the last accepted firing (NoTime: no entry)
    pending,                  \* kind -> _pending_<kind>
    emitted,                  \* the signals emitted so far, in order
    pcPoll,                   \* position of the main thread in check_hotkey_status
    pcHook,                   \* position of the hook thread in a callback
    lastTick,                 \* time of the last timeout of hotkey_check_timer
    hooks,                    \* how many callbacks the keyboard library holds per hotkey
    listener,                 \* keyboard._listener: "running" | "none"
    nhook,                    \* calls of register_hotkeys and unregister_hotkeys so far
    \* ---- observation variables of the bridge ----
    fired,                    \* every hook firing, in order: [kind, t, tick]
    accepted,                 \* the firings that passed the debounce test, in arrival order
    owed,                     \* kind -> a firing was accepted and its flag not yet drained
    presses,                  \* every key press that ran a callback: [kind, handlers]
    stopped,                  \* how many firings had been accepted when the hooks were removed
    hotkey_check_timer,       \* MainWindow.hotkey_check_timer: "active" | "stopped"
    ignored,                  \* how many close events were ignored (the close was aborted)
    \* ---- the windows (main_window.py, screenshot_manager.py, capture_window.py) ----
    is_working_mode,          \* MainWindow.is_working_mode
    main_visible,             \* MainWindow.isVisible()
    float_ball,               \* MainWindow.float_ball: "none" | "hidden" | "shown"
    full_screen_mode,         \* ScreenshotManager.full_screen_mode
    capture_window,           \* the CaptureWindow: [open, auto_save_mode, float_ball_visible]
    shot,                     \* the capture under way: [at, kind, float_ball_visible]
    \* ---- observation variable of the windows ----
    cap                       \* the last capture: its kind, the visibility before it,
                              \* how it ended and what was visible and staged then

docVars == <<word_doc, word_path, last_modified_time, original_paragraphs,
             original_rels_count, original_rel_ids, current_image_path,
             current_text_description, fTarget, fBak, fTmp, clock, pc, caller,
             waiting, ncap, nedit, nfault, g_sync, g_base, obs, quiet, scen>>
hkVars == <<hk_now, last_hotkey_time, pending, emitted, pcPoll, pcHook, lastTick,
            hooks, listener, nhook, fired, accepted, owed, presses, stopped,
            hotkey_check_timer, ignored>>
uiVars == <<is_working_mode, main_visible, float_ball, full_screen_mode,
            capture_window, shot, cap>>
vars == <<docVars, hkVars, uiVars>>

----------------------------------------------------------------------------
(* Bounds of the model *)
MaxClock == 3        \* file-system writes in one run
MaxExtParas == 4     \* paragraphs one external edit may append
MaxCaptures == 1     \* captures appended in one run
MaxExtEdits == 1     \* external edits in one run
MaxFaults == 1       \* failing file operations in one run
MaxTicks == 2        \* timeouts of the poll timer in one run
MaxFirings == 2      \* hook firings in one run
MaxHookCalls == 3    \* calls of register_hotkeys and unregister_hotkeys in one run
MaxAutoPresses == 1  \* presses of F11 in one run
\* close events that are ignored in a run
MaxCloses == 1

----------------------------------------------------------------------------
(* Documents.  A paragraph has a text, at most one inline picture and the   *)
(* run attributes (bold, italic, underline) of its text, here one flag; a   *)
(* document is its paragraphs and its part's relationships, in order.      *)

Para(text, pic) == [text |-> text, pic |-> pic, bold |-> FALSE]

None == [kind |-> "none", paras |-> <<>>, rels |-> <<>>]
NoPath == ""
DocPath == "doc.docx"

Absent == [kind |-> "absent", paras |-> <<>>, rels |-> <<>>, mtime |-> 0]
Partial(t) == [kind |-> "partial", paras |-> <<>>, rels |-> <<>>, mtime |-> t]
\* a file that loads as a package but whose paragraphs cannot be read
Malformed(t) == [kind |-> "malformed", paras |-> <<>>, rels |-> <<>>, mtime |-> t]

\* Document(path): what python-docx loads from a complete file
DocOf(f) == [kind |-> "doc", paras |-> f.paras, rels |-> f.rels]
\* word_doc.save(path) completed at time t
FileOf(d, t) == [kind |-> "doc", paras |-> d.paras, rels |-> d.rels, mtime |-> t]

Range(s) == {s[i] : i \in 1..Len(s)}
RelIds(d) == {r.id : r \in Range(d.rels)}
Texts(ps) == [i \in 1..Len(ps) |-> ps[i].text]

\* docx.opc.rel.Relationships._next_rId: the first unused number
NextRId(rels) ==
    CHOOSE n \in 1..(Len(rels) + 1) :
        /\ n \notin {r.id : r \in Range(rels)}
        /\ \A m \in 1..(n - 1) : m \in {r.id : r \in Range(rels)}

\* Document(): the default template, no paragraph, one non-image relationship
NewDocument == [kind |-> "doc", paras |-> <<>>,
                rels |-> <<[id |-> 1, img |-> "", type |-> "other"]>>]

add_paragraph(d, text) == [d EXCEPT !.paras = Append(@, Para(text, ""))]

\* add_picture: the image part and its relationship are reused when the document
\* already holds the same image, and the picture goes into a new paragraph
add_picture(d, img) ==
    LET have == \E r \in Range(d.rels) : r.type = "image" /\ r.img = img
    IN  [d EXCEPT
            !.rels = IF have THEN @
                     ELSE Append(@, [id |-> NextRId(d.rels), img |-> img,
                                     type |-> "image"]),
            !.paras = Append(@, Para("", img))]

HeadingText == "Title"
CreatedText == "Created"

\* create_document, lines 49-56: the title heading and the creation time
CreatedDocument ==
    add_paragraph(add_paragraph(NewDocument, HeadingText), CreatedText)

CapNames == <<"S1", "S2", "S3", "S4">>
ExtTexts == <<"X1", "X2", "X3", "X4", "X5", "X6">>
ExtImages == <<"E1", "E2", "E3", "E4">>
CaptionOf == <<"A", "B", "C", "D">>
\* the caption typed for the n-th capture: none, or a text
Captions(n) == {"", CaptionOf[n]}

----------------------------------------------------------------------------
(* save_document, lines 230-499 *)

\* the outcomes of a file operation: it succeeds, or (within the failure budget) fails
Outcomes == IF nfault < MaxFaults THEN {TRUE, FALSE} ELSE {TRUE}
Met(ok) == nfault' = IF ok THEN nfault ELSE nfault + 1

ObsNone ==
    [caller |-> "", asked |-> FALSE, decision |-> "", result |-> "",
     path |-> NoPath, pre |-> Absent, base |-> None, sync |-> 0, mem |-> None,
     img |-> "", text |-> "", quiet |-> FALSE, faults |-> 0, ret |-> FALSE,
     snap |-> [paragraphs |-> <<>>, rels_count |-> 0,
               rel_ids |-> [set |-> FALSE, ids |-> {}]]]

Baseline == [paragraphs |-> original_paragraphs, rels_count |-> original_rels_count,
             rel_ids |-> original_rel_ids]

Orders(S) ==
    {s \in [1..Cardinality(S) -> S] : \A i, j \in 1..Cardinality(S) : i # j => s[i] # s[j]}

RECURSIVE add_pictures(_, _)
add_pictures(d, rs) ==
    IF rs = <<>> THEN d ELSE add_pictures(add_picture(d, Head(rs).img), Tail(rs))

\* lines 295-296: add_paragraph() and new_para.text = para.text give one plain
\* run with the text and nothing else
CopiedParagraph(p) == Para(p.text, "")

\* line 284: the paragraph counts that decide whether anything is merged are the
\* external document's and the in-memory document's
CountsDiffer(cur, orig) == cur # orig

\* line 341-345: the relationship ids taken as new
NewRelIds(ext) ==
    IF original_rel_ids.set THEN RelIds(ext) \ original_rel_ids.ids ELSE RelIds(ext)

\* sensitivity variant of Rehomed: the caption added after the picture
Rehomed_CaptionLast(ext, img, text) ==
    add_paragraph(IF text # "" THEN add_paragraph(add_picture(ext, img), text)
                  ELSE add_picture(ext, img), "")

\* lines 319-332: the external document taken as the base, with the staged caption,
\* picture and empty paragraph added at its end
Rehomed(ext, img, text) ==
    add_paragraph(add_picture(IF text # "" THEN add_paragraph(ext, text) ELSE ext, img), "")

\* lines 275-419: the documents a merge of the external document ext into the
\* in-memory document doc can leave in word_doc; img and text are the staged
\* capture.  The new relationships are walked in the order of a Python set.
MergeResults(doc, ext, img, text) ==
    LET cur == Len(ext.paras)
        orig == Len(doc.paras)
        grown == cur > orig
        pend == img # ""
        base1 == IF grown
                 THEN [doc EXCEPT !.paras =
                          @ \o [i \in 1..(cur - orig) |-> CopiedParagraph(ext.paras[orig + i])]]
                 ELSE IF pend THEN Rehomed(ext, img, text) ELSE ext
        manually_added_image == ~grown /\ pend
        newImgs == {r \in Range(ext.rels) : r.id \in NewRelIds(ext) /\ r.type = "image"}
    IN  IF ~CountsDiffer(cur, orig) THEN {doc}
        ELSE IF manually_added_image THEN {base1}
        ELSE {add_pictures(base1, s) : s \in Orders(newImgs)}

\* lines 362-394 and 413-415: the documents a merge leaves in word_doc when
\* writing the scratch file or add_picture raises for some of the new images
\* (the loop logs and goes on) or the scratch directory cannot be made (no
\* image is copied); the save goes on
MergeSkips(doc, ext, img, text) ==
    LET cur == Len(ext.paras)
        orig == Len(doc.paras)
        grown == cur > orig
        base1 == IF grown
                 THEN [doc EXCEPT !.paras =
                          @ \o [i \in 1..(cur - orig) |-> CopiedParagraph(ext.paras[orig + i])]]
                 ELSE ext
        newImgs == {r \in Range(ext.rels) : r.id \in NewRelIds(ext) /\ r.type = "image"}
    IN  IF ~CountsDiffer(cur, orig) \/ (~grown /\ img # "") THEN {}
        ELSE {add_pictures(base1, s) :
                 s \in UNION {Orders(T) : T \in (SUBSET newImgs) \ {newImgs}}}

\* sensitivity variants of IsModified: only a newer file counts; an equal stamp counts
IsModified_Newer(current_modified_time, last) == current_modified_time > last
IsModified_NotOlder(current_modified_time, last) == current_modified_time >= last

\* lines 319-330: the document left in word_doc when add_picture of the staged
\* image raises (the image file cannot be read), after the external document
\* was taken as the base and the caption was added
MergeRaises(doc, ext, img, text) ==
    IF Len(ext.paras) < Len(doc.paras) /\ img # ""
    THEN {IF text # "" THEN add_paragraph(ext, text) ELSE ext}
    ELSE {}

\* line 244: the file counts as externally modified
IsModified(current_modified_time, last) == current_modified_time # last

Conflict ==
    /\ word_path # NoPath
    /\ fTarget.kind # "absent"
    /\ IsModified(fTarget.mtime, last_modified_time)

\* sensitivity variant of StillClose: the question is put after every save
StillClose_Always(saved) == {"Yes", "No"}

\* lines 648-658: only after a failed save the user is asked whether to close
\* all the same; "Yes" stands for going on to close
StillClose(saved) == IF saved THEN {"Yes"} ELSE {"Yes", "No"}

\* where the main thread stands after a handler has returned: in the event loop
\* of the innermost conflict dialog still open (line 263), or in the main loop
Resumed(stack) == IF stack = <<>> THEN "idle" ELSE "save_ask"

\* What the caller of save_document does with its result: save_word_doc
\* (main_window.py:875-885), add_screenshot (601-610), close_document (648-664).
save_return(ok, doc, lmt, who, stack) ==
    /\ caller' = ""
    /\ quiet' = (ok /\ who # "close" /\ stack = <<>>)
    /\ CASE who = "menu" ->
              /\ word_doc' = doc /\ word_path' = word_path
              /\ last_modified_time' = lmt
              /\ UNCHANGED <<current_image_path, current_text_description>>
              /\ pc' = Resumed(stack)
         [] who = "add" ->
              /\ word_doc' = doc /\ word_path' = word_path
              /\ last_modified_time' = IF ok THEN fTarget'.mtime ELSE lmt
              /\ current_image_path' = "" /\ current_text_description' = ""
              /\ pc' = Resumed(stack)
         [] who = "close" ->
              /\ last_modified_time' = lmt
              /\ UNCHANGED <<current_image_path, current_text_description>>
              /\ \E reply \in StillClose(ok) :
                    IF reply = "Yes"
                    THEN word_doc' = None /\ word_path' = NoPath /\ pc' = "exited"
                    ELSE word_doc' = doc /\ word_path' = word_path /\ pc' = Resumed(stack)

\* what the handler hands back to its caller when save_document returned saved:
\* add_screenshot returns True on both branches of line 601 (line 610),
\* save_word_doc and close_document go by the result of the save
HandlerResult(who, saved) == IF who = "add" THEN TRUE ELSE saved

Observed(who, doc, img, text, asked, decision, result) ==
    [caller |-> who, ret |-> HandlerResult(who, FALSE), asked |-> asked, decision |-> decision, result |-> result,
     path |-> word_path, pre |-> fTarget, base |-> g_base, sync |-> g_sync, mem |-> doc,
     img |-> img, text |-> text, quiet |-> (quiet /\ who # "add"), faults |-> nfault,
     snap |-> Baseline]

\* sensitivity variant of save_stop: the time stamp of the file is taken over
\* when the save is given up
save_stop_Synced(who, doc, img, text, asked, d, left, stack) ==
    /\ obs' = Observed(who, doc, img, text, asked, d, "stopped")
    /\ save_return(FALSE, left, fTarget.mtime, who, stack)

\* save_document returns False before the backup (lines 445-453, 494-499)
save_stop(who, doc, img, text, asked, d, left, stack) ==
    /\ obs' = Observed(who, doc, img, text, asked, d, "stopped")
    /\ save_return(FALSE, left, last_modified_time, who, stack)

\* save_document goes on to the backup and the write with next in word_doc
save_go(who, doc, img, text, asked, d, next) ==
    /\ obs' = Observed(who, doc, img, text, asked, d, "run")
    /\ word_doc' = next /\ word_path' = word_path
    /\ last_modified_time' = last_modified_time
    /\ current_image_path' = img /\ current_text_description' = text
    /\ quiet' = FALSE
    /\ caller' = who /\ pc' = "save_backup"

\* lines 265-453: the answer to the conflict dialog and what follows from it,
\* for the in-memory document doc and the staged capture (img, text)
save_document_decision(doc, img, text, who, stack) ==
    LET \* lines 420-444: the merge raised with the document left in word_doc
        failed(left) ==
            \E d2 \in {"Overwrite", "Cancel"} :
               IF d2 = "Cancel"
               THEN save_stop(who, doc, img, text, TRUE, "MergeFailedCancel", left, stack)
               ELSE save_go(who, doc, img, text, TRUE, "MergeFailedOverwrite", left)
    IN  \E d \in {"Merge", "Overwrite", "Cancel"} :
           CASE d = "Cancel" ->
                  save_stop(who, doc, img, text, TRUE, d, doc, stack) /\ UNCHANGED nfault
             [] d = "Overwrite" ->
                  save_go(who, doc, img, text, TRUE, d, doc) /\ UNCHANGED nfault
             [] d = "Merge" ->
                  IF fTarget.kind # "doc" \/ doc.kind # "doc"
                  THEN \* lines 275, 280 raise before anything is merged
                       failed(doc) /\ UNCHANGED nfault
                  ELSE \/ /\ \E m \in MergeResults(doc, DocOf(fTarget), img, text) :
                                save_go(who, doc, img, text, TRUE, d, m)
                          /\ UNCHANGED nfault
                       \/ /\ nfault < MaxFaults
                          /\ nfault' = nfault + 1
                          /\ \/ \E left \in MergeRaises(doc, DocOf(fTarget), img, text) :
                                   failed(left)
                             \/ \E m \in MergeSkips(doc, DocOf(fTarget), img, text) :
                                   save_go(who, doc, img, text, TRUE, d, m)

\* lines 235-263: from the entry of save_document to the backup or to the
\* conflict dialog, for the in-memory document doc and the staged capture
\* (img, text) the caller holds
save_document_check(doc, img, text, who) ==
    /\ UNCHANGED <<original_paragraphs, original_rels_count, original_rel_ids,
                   fTarget, fBak, fTmp, clock, nfault>>
    /\ IF word_path = NoPath
       THEN \* os.path.exists(None) raises
            save_stop(who, doc, img, text, FALSE, "", doc, waiting) /\ UNCHANGED waiting
       ELSE IF ~Conflict
       THEN save_go(who, doc, img, text, FALSE, "", doc) /\ UNCHANGED waiting
       ELSE \* line 263: merge_msg_box.exec_() runs an event loop of its own
            /\ obs' = Observed(who, doc, img, text, TRUE, "", "asking")
            /\ word_doc' = doc /\ word_path' = word_path
            /\ last_modified_time' = last_modified_time
            /\ current_image_path' = img /\ current_text_description' = text
            /\ quiet' = FALSE
            /\ caller' = "" /\ pc' = "save_ask"
            /\ waiting' = Append(waiting, who)

\* lines 265-453: the user answers the innermost conflict dialog
save_document_decide ==
    /\ pc = "save_ask" /\ waiting # <<>>
    /\ waiting' = SubSeq(waiting, 1, Len(waiting) - 1)
    /\ save_document_decision(word_doc, current_image_path, current_text_description,
                              waiting[Len(waiting)], SubSeq(waiting, 1, Len(waiting) - 1))
    /\ UNCHANGED <<original_paragraphs, original_rels_count, original_rel_ids,
                   fTarget, fBak, fTmp, clock, ncap, nedit, g_sync, g_base, scen, hkVars, uiVars>>

\* main_window.save_word_doc -> save_document
save_document ==
    /\ pc = "idle" /\ clock < MaxClock
    /\ save_document_check(word_doc, current_image_path, current_text_description, "menu")
    /\ scen' = (IF scen = 3 /\ ~Conflict THEN 3 ELSE 0)
    /\ UNCHANGED <<ncap, nedit, g_sync, g_base, hkVars, uiVars>>

\* lines 455-461: shutil.copy2(word_path, backup_path), best effort
save_document_backup ==
    /\ pc = "save_backup"
    /\ IF fTarget.kind = "absent"
       THEN UNCHANGED <<fBak, nfault>>          \* copy2 raises: nothing to copy
       ELSE \E ok \in Outcomes :
              /\ Met(ok)
              /\ IF ok THEN fBak' = fTarget ELSE UNCHANGED fBak
    /\ pc' = "save_write"
    /\ UNCHANGED <<word_doc, word_path, last_modified_time, original_paragraphs,
                   original_rels_count, original_rel_ids, current_image_path,
                   current_text_description, fTarget, fTmp, clock, caller, waiting, ncap,
                   nedit, g_sync, g_base, obs, quiet, scen, hkVars, uiVars>>

\* line 465: word_doc.save(word_path) opens the target for writing, which
\* truncates it, or raises before it touched the file
save_document_write ==
    /\ pc = "save_write"
    /\ IF word_doc.kind # "doc"
       THEN /\ pc' = "save_restore"             \* None has no save()
            /\ UNCHANGED <<fTarget, clock, nfault>>
       ELSE \E opened \in Outcomes :
              /\ Met(opened)
              /\ IF opened
                 THEN /\ fTarget' = Partial(clock + 1)
                      /\ clock' = clock + 1
                      /\ pc' = "save_writing"
                 ELSE /\ pc' = "save_restore"
                      /\ UNCHANGED <<fTarget, clock>>
    /\ UNCHANGED <<word_doc, word_path, last_modified_time, original_paragraphs,
                   original_rels_count, original_rel_ids, current_image_path,
                   current_text_description, fBak, fTmp, caller, waiting, ncap, nedit,
                   g_sync, g_base, obs, quiet, scen, hkVars, uiVars>>

\* lines 465-476: the write completes and the bookkeeping follows, or it raises
\* half way
save_document_written ==
    /\ pc = "save_writing"
    /\ \E ok \in Outcomes :
          /\ Met(ok)
          /\ IF ok
             THEN /\ fTarget' = FileOf(word_doc, clock)
                  /\ original_rels_count' = Len(word_doc.rels)
                  /\ original_rel_ids' = [set |-> TRUE, ids |-> RelIds(word_doc)]
                  /\ obs' = [obs EXCEPT !.result = "ok", !.ret = HandlerResult(caller, TRUE)]
                  /\ g_sync' = clock /\ g_base' = word_doc
                  /\ scen' = (IF scen = 2 THEN 3 ELSE scen)
                  /\ save_return(TRUE, word_doc, clock, caller, waiting)
             ELSE /\ pc' = "save_restore"
                  /\ UNCHANGED <<fTarget, original_rels_count, original_rel_ids, obs,
                                 g_sync, g_base, word_doc, word_path,
                                 last_modified_time, current_image_path,
                                 current_text_description, caller, quiet, scen>>
    /\ UNCHANGED <<original_paragraphs, fBak, fTmp, clock, ncap, nedit, waiting, hkVars, uiVars>>

\* lines 477-492: the write failed; restore the target from the backup file
save_document_restore ==
    /\ pc = "save_restore"
    /\ IF fBak.kind = "absent"
       THEN UNCHANGED <<fTarget, nfault>>
       ELSE \E ok \in Outcomes :
              /\ Met(ok)
              /\ IF ok THEN fTarget' = fBak ELSE UNCHANGED fTarget
    /\ obs' = [obs EXCEPT !.result = "fail", !.ret = HandlerResult(caller, FALSE)]
    /\ save_return(FALSE, word_doc, last_modified_time, caller, waiting)
    /\ scen' = 0
    /\ UNCHANGED <<original_paragraphs, original_rels_count, original_rel_ids, fBak,
                   fTmp, clock, ncap, nedit, g_sync, g_base, waiting, hkVars, uiVars>>

----------------------------------------------------------------------------
(* add_screenshot, lines 501-619 *)

\* sensitivity variant of AppendCapture: the picture added before its caption
AppendCapture_PictureFirst(d, img, text) ==
    add_paragraph(IF text # "" THEN add_paragraph(add_picture(d, img), text)
                  ELSE add_picture(d, img), "")

\* lines 586-596: the caption (if any), the picture, an empty paragraph
AppendCapture(d, img, text) ==
    add_paragraph(add_picture(IF text # "" THEN add_paragraph(d, text) ELSE d, img), "")

AddObserved(img, text) ==
    [ObsNone EXCEPT !.caller = "add_screenshot", !.result = "fail", !.path = word_path,
                    !.pre = fTarget, !.mem = word_doc, !.img = img, !.text = text,
                    !.faults = nfault]

\* lines 541-582 and 585-619: add_screenshot raises and returns False.  Before
\* the capture is staged: the pixmap is null, the scratch directory cannot be
\* made or pixmap.save() returns False (541-574).  After it is staged
\* (577-578): add_picture raises (593) when the caption has been added (589);
\* the handler at 611-613 raises on and the one at 615-619 returns False, and
\* neither takes the caption back nor clears the staged fields
add_screenshot_raises(img, text) ==
    /\ nfault < MaxFaults
    /\ nfault' = nfault + 1
    /\ ncap' = ncap + 1
    /\ obs' = AddObserved(img, text)
    /\ \E at \in {"scratch", "picture"} :
          IF at = "scratch"
          THEN UNCHANGED <<word_doc, current_image_path, current_text_description>>
          ELSE /\ word_doc' = IF text # "" THEN add_paragraph(word_doc, text) ELSE word_doc
               /\ current_image_path' = img
               /\ current_text_description' = text
    /\ scen' = 0
    /\ UNCHANGED <<word_path, last_modified_time, original_paragraphs,
                   original_rels_count, original_rel_ids, fTarget, fBak, fTmp, clock,
                   pc, caller, waiting, nedit, g_sync, g_base, quiet, hkVars>>

\* the capture is committed from the main loop, or from the event loop of an
\* open conflict dialog, where the poll timer and the queued signals keep
\* running (main_window.py:88-90, 103-105); closeEvent has stopped the timer
\* and unregistered the hotkeys before it saves (main_window.py:929-941)
add_screenshot_text(texts) ==
    /\ pc \in {"idle", "save_ask"} /\ clock < MaxClock /\ ncap < MaxCaptures
    /\ \A i \in 1..Len(waiting) : waiting[i] # "close"
    /\ IF word_doc.kind # "doc"
       THEN \* lines 515-517: no document is open
            UNCHANGED <<docVars, hkVars>>
       ELSE \E text \in texts :
              LET img == CapNames[ncap + 1] IN
              \/ /\ ncap' = ncap + 1
                 /\ save_document_check(AppendCapture(word_doc, img, text), img, text, "add")
                 /\ scen' = (IF scen = 1 /\ text = "A" /\ ~Conflict THEN 2 ELSE 0)
                 /\ UNCHANGED <<nedit, g_sync, g_base, hkVars>>
              \/ add_screenshot_raises(img, text)

\* add_screenshot(pixmap, text) with any caption, typed or none
add_screenshot_call == add_screenshot_text(Captions(ncap + 1))

\* sensitivity variant of DefaultText: an automatic capture without a caption
DefaultText_None == ""

\* screenshot_manager.py:341-347: the caption of an automatic capture, the
\* fixed words followed by the time of the capture
DefaultText == "T"

\* add_screenshot called with the windows left as they are
add_screenshot == add_screenshot_call /\ UNCHANGED uiVars

----------------------------------------------------------------------------
(* save_original_content_info, lines 666-683 *)
save_original_content_info(d) ==
    /\ original_paragraphs' = Texts(d.paras)
    /\ original_rels_count' = Len(d.rels)
    /\ UNCHANGED original_rel_ids

(* create_document, lines 39-153 *)

CreateObserved(result) ==
    [ObsNone EXCEPT !.caller = "create", !.pre = fTarget, !.faults = nfault,
                    !.result = result]

\* lines 46-102: the new document, the file dialog and the checks of the
\* directory, then the write of the temp file
create_document ==
    /\ pc = "idle" /\ clock < MaxClock
    /\ \E choice \in {"cancel", "tmp_written"} \cup
                     (IF nfault < MaxFaults THEN {"tmp_failed"} ELSE {}) :
          CASE choice = "cancel" ->          \* lines 63-92: word_doc = None, return False
                 /\ word_doc' = None
                 /\ obs' = CreateObserved("stopped")
                 /\ UNCHANGED <<word_path, fTmp, clock, pc, nfault>>
            [] choice = "tmp_written" ->     \* line 102
                 /\ word_doc' = CreatedDocument
                 /\ fTmp' = FileOf(CreatedDocument, clock + 1)
                 /\ clock' = clock + 1
                 /\ pc' = "create_backup"
                 /\ obs' = CreateObserved("run")
                 /\ UNCHANGED <<word_path, nfault>>
            [] choice = "tmp_failed" ->      \* lines 130-145
                 /\ word_doc' = None /\ word_path' = NoPath
                 /\ nfault' = nfault + 1
                 /\ obs' = CreateObserved("fail")
                 /\ UNCHANGED <<fTmp, clock, pc>>
    /\ quiet' = FALSE /\ scen' = 0
    /\ UNCHANGED <<last_modified_time, original_paragraphs, original_rels_count,
                   original_rel_ids, current_image_path, current_text_description,
                   fTarget, fBak, caller, waiting, ncap, nedit, g_sync, g_base, hkVars, uiVars>>

\* lines 104-113: an existing target is renamed to the backup path, best effort
create_document_backup ==
    /\ pc = "create_backup"
    /\ IF fTarget.kind = "absent"
       THEN UNCHANGED <<fTarget, fBak, nfault>>
       ELSE \E ok \in Outcomes :
              /\ Met(ok)
              /\ IF ok THEN fBak' = fTarget /\ fTarget' = Absent
                 ELSE UNCHANGED <<fTarget, fBak>>
    /\ pc' = "create_rename"
    /\ UNCHANGED <<word_doc, word_path, last_modified_time, original_paragraphs,
                   original_rels_count, original_rel_ids, current_image_path,
                   current_text_description, fTmp, clock, caller, waiting, ncap, nedit,
                   g_sync, g_base, obs, quiet, scen, hkVars, uiVars>>

\* lines 116-145: os.rename(temp_path, file_path) and the bookkeeping, or the
\* failure path that removes the temp file
create_document_rename ==
    /\ pc = "create_rename"
    /\ \E ok \in Outcomes :
          /\ Met(ok)
          /\ IF ok
             THEN /\ fTarget' = fTmp /\ fTmp' = Absent
                  /\ word_path' = DocPath
                  /\ last_modified_time' = fTmp.mtime
                  /\ save_original_content_info(word_doc)
                  /\ g_sync' = fTmp.mtime /\ g_base' = word_doc
                  /\ obs' = [obs EXCEPT !.result = "ok"]
                  /\ scen' = 1
                  /\ UNCHANGED word_doc
             ELSE /\ fTmp' = Absent
                  /\ word_doc' = None /\ word_path' = NoPath
                  /\ obs' = [obs EXCEPT !.result = "fail"]
                  /\ UNCHANGED <<fTarget, last_modified_time, original_paragraphs,
                                 original_rels_count, original_rel_ids, g_sync, g_base,
                                 scen>>
    /\ pc' = "idle"
    /\ UNCHANGED <<current_image_path, current_text_description, fBak, clock, caller, waiting,
                   ncap, nedit, quiet, hkVars, uiVars>>

----------------------------------------------------------------------------
(* open_document, lines 155-228 *)
OpenObserved(result) ==
    [ObsNone EXCEPT !.caller = "open", !.pre = fTarget, !.result = result]

open_document ==
    /\ pc = "idle"
    /\ fTarget.kind # "absent"            \* the dialog names an existing file
    /\ CASE fTarget.kind = "doc" ->
              /\ word_doc' = DocOf(fTarget) /\ word_path' = DocPath
              /\ last_modified_time' = fTarget.mtime
              /\ save_original_content_info(DocOf(fTarget))
              /\ g_sync' = fTarget.mtime /\ g_base' = DocOf(fTarget)
              /\ scen' = (IF scen = 3 THEN 4 ELSE 0)
              /\ obs' = OpenObserved("ok")
         [] fTarget.kind = "malformed" ->
              \* lines 197-217: the package loads, word_path and last_modified_time
              \* are set, then the access to the paragraphs raises
              /\ word_doc' = None /\ word_path' = NoPath
              /\ last_modified_time' = fTarget.mtime
              /\ scen' = 0
              /\ obs' = OpenObserved("fail")
              /\ UNCHANGED <<original_paragraphs, original_rels_count, original_rel_ids,
                             g_sync, g_base>>
         [] fTarget.kind = "partial" ->
              \* a truncated file: empty (lines 186-189) or unreadable (lines 222-228)
              /\ \E empty \in BOOLEAN :
                    IF empty THEN UNCHANGED <<word_doc, word_path>>
                    ELSE word_doc' = None /\ word_path' = NoPath
              /\ scen' = 0
              /\ obs' = OpenObserved("fail")
              /\ UNCHANGED <<last_modified_time, original_paragraphs,
                             original_rels_count, original_rel_ids, g_sync, g_base>>
    /\ quiet' = FALSE
    /\ UNCHANGED <<current_image_path, current_text_description, fTarget, fBak, fTmp,
                   clock, pc, caller, waiting, ncap, nedit, nfault, hkVars, uiVars>>

----------------------------------------------------------------------------
(* close_document(ask_save=True), lines 621-664, called by closeEvent          *)
(* (main_window.py:945-948) when a document is open                            *)
CloseObserved(reply) ==
    [ObsNone EXCEPT !.caller = "close_document", !.decision = reply, !.path = word_path,
                    !.pre = fTarget, !.mem = word_doc]

close_document ==
    /\ pc = "idle"
    /\ word_doc.kind = "doc" /\ word_path # NoPath
    /\ \E reply \in {"Cancel", "No", "Yes"} :
          CASE reply = "Cancel" ->
                 /\ obs' = CloseObserved(reply)
                 /\ UNCHANGED <<word_doc, word_path, pc, quiet, scen, last_modified_time,
                                original_paragraphs, original_rels_count,
                                original_rel_ids, current_image_path,
                                current_text_description, fTarget, fBak, fTmp, clock,
                                caller, waiting, ncap, nedit, nfault, g_sync, g_base, hkVars, uiVars>>
            [] reply = "No" ->
                 /\ word_doc' = None /\ word_path' = NoPath /\ pc' = "exited"
                 /\ quiet' = FALSE /\ scen' = 0 /\ obs' = CloseObserved(reply)
                 /\ UNCHANGED <<last_modified_time, original_paragraphs,
                                original_rels_count, original_rel_ids,
                                current_image_path, current_text_description, fTarget,
                                fBak, fTmp, clock, caller, waiting, ncap, nedit, nfault, g_sync,
                                g_base, hkVars, uiVars>>
            [] reply = "Yes" ->
                 /\ clock < MaxClock
                 /\ save_document_check(word_doc, current_image_path,
                                        current_text_description, "close")
                 /\ scen' = 0
                 /\ UNCHANGED <<ncap, nedit, g_sync, g_base, hkVars, uiVars>>

----------------------------------------------------------------------------
(* The other process that edits the document file between the application's    *)
(* operations (spec.md section 1).                                              *)

NextExtImage(f) ==
    ExtImages[Cardinality({r \in Range(f.rels) : r.img \in Range(ExtImages)}) + 1]

ExternalEdit ==
    /\ pc = "idle" /\ clock < MaxClock /\ nedit < MaxExtEdits
    /\ fTarget.kind = "doc"
    /\ \E e \in {"append", "bold", "picture", "inline", "delete", "touch", "backdate",
                 "corrupt"} :
          \E k \in 1..MaxExtParas :
             /\ e # "append" => k = 1
             /\ e = "delete" => Len(fTarget.paras) > 0
             /\ e = "inline" => /\ Len(fTarget.paras) > 0
                                /\ fTarget.paras[Len(fTarget.paras)].pic = ""
             /\ LET d == DocOf(fTarget)
                    n == Len(d.paras)
                    img == NextExtImage(fTarget)
                    withRel == [d EXCEPT !.rels = Append(@, [id |-> NextRId(d.rels),
                                                           img |-> img, type |-> "image"])]
                    d1 == CASE e = "append" ->
                                 [d EXCEPT !.paras = @ \o [i \in 1..k |-> Para(ExtTexts[i], "")]]
                            [] e = "bold" ->
                                 [d EXCEPT !.paras =
                                     Append(@, [Para(ExtTexts[1], "") EXCEPT !.bold = TRUE])]
                            [] e = "picture" -> add_picture(d, img)
                            [] e = "inline" -> [withRel EXCEPT !.paras[n].pic = img]
                            [] e = "delete" -> [d EXCEPT !.paras = SubSeq(@, 1, n - 1)]
                            [] e = "touch" -> d
                            [] e = "backdate" -> d
                            [] e = "corrupt" -> d
                    \* a restored or synchronised copy carries an earlier time stamp
                    stamp == IF e = "backdate" THEN fTarget.mtime - 1 ELSE clock + 1
                IN  fTarget' = IF e = "corrupt" THEN Malformed(stamp) ELSE FileOf(d1, stamp)
    /\ clock' = clock + 1
    /\ nedit' = nedit + 1
    /\ quiet' = FALSE /\ scen' = 0 /\ obs' = ObsNone
    /\ UNCHANGED <<word_doc, word_path, last_modified_time, original_paragraphs,
                   original_rels_count, original_rel_ids, current_image_path,
                   current_text_description, fBak, fTmp, pc, caller, waiting, ncap, nfault,
                   g_sync, g_base, hkVars, uiVars>>

----------------------------------------------------------------------------
(* The windows: the main window, the float ball of the working mode, the     *)
(* region selection window and the capture handlers that hide and show them. *)

\* what is on screen
Visible == [ball |-> float_ball = "shown", main |-> main_visible]

\* float_ball.show() and float_ball.hide() on a float ball that may not exist
Shown(fb) == IF fb = "none" THEN fb ELSE "shown"
Hidden(fb) == IF fb = "shown" THEN "hidden" ELSE fb

\* screenshot_manager.py:32: no CaptureWindow yet
NoWindow == [open |-> FALSE, auto_save_mode |-> FALSE, float_ball_visible |-> FALSE]
\* no capture under way; float_ball_visible is the local of
\* take_fullscreen_screenshot (screenshot_manager.py:50) and dialog_visible the
\* local of process_screenshot_with_dialog (screenshot_manager.py:192)
NoShot == [at |-> "idle", kind |-> "", float_ball_visible |-> FALSE,
           dialog_visible |-> FALSE]

\* the observation of a capture that begins now
Began(kind) ==
    [kind |-> kind, pre |-> Visible, exit |-> "", ret |-> FALSE, post |-> Visible,
     mem_pre |-> word_doc, mem_post |-> word_doc, staged |-> current_image_path,
     grabbed |-> FALSE, ball_in_grab |-> FALSE, esc |-> FALSE,
     dialog |-> "", text |-> "", raised |-> FALSE]

\* grabWindow(0) returns the screen as it is, with the float ball fb on it or not
\* (screenshot_manager.py:66, capture_window.py:30, main_window.py:1246)
Grabbed(c, fb) == [c EXCEPT !.grabbed = TRUE, !.ball_in_grab = (fb = "shown")]

\* the observation c of a capture handed to add_screenshot in this step: the
\* call raised and returned False (document_manager.py:615-619), or went on
Handed(c) ==
    [c EXCEPT !.raised = (ncap' = ncap + 1 /\ obs'.caller = "add_screenshot")]

\* the observation c of a capture that ends now with fb and mv on screen
End(c, how, ret, fb, mv) ==
    [c EXCEPT !.exit = how, !.ret = ret, !.post = [ball |-> fb = "shown", main |-> mv],
              !.mem_post = word_doc, !.staged = current_image_path]

CapNone == End(Began(""), "", FALSE, "none", TRUE)

\* main_window.py:142-160
ensure_window_state_for_screenshot(fb) ==
    IF is_working_mode /\ fb = "hidden" THEN "shown" ELSE fb

\* capture_window.py:140-159
restore_parent_window(fb, mv) ==
    IF is_working_mode
    THEN IF fb # "none" /\ capture_window.float_ball_visible
         THEN [ball |-> "shown", main |-> FALSE]
         ELSE [ball |-> fb, main |-> mv]
    ELSE [ball |-> fb, main |-> TRUE]

\* screenshot_manager.py:262-291 and 420-440: the windows after the capture
\* was committed or the dialog rejected
ShowForMode(fb, mv) ==
    IF is_working_mode THEN [ball |-> Shown(fb), main |-> FALSE]
    ELSE [ball |-> fb, main |-> TRUE]

\* screenshot_manager.py:87-91, 222-228: a float ball hidden by the handler
\* is shown again in working mode
ShownAgain(was_visible, fb) ==
    IF was_visible /\ fb # "none" /\ is_working_mode THEN "shown" ELSE fb

\* main_window.py:701-729
exit_working_mode ==
    /\ is_working_mode' = FALSE
    /\ float_ball' = Hidden(float_ball)
    /\ main_visible' = TRUE

\* main_window.py:645-699: the button of the main window; without a
\* document it only warns
toggle_working_mode ==
    /\ shot.at = "idle" /\ pc = "idle" /\ main_visible
    /\ word_doc.kind = "doc"
    /\ IF ~is_working_mode
       THEN /\ is_working_mode' = TRUE
            /\ float_ball' = "shown"
            /\ main_visible' = FALSE
       ELSE exit_working_mode
    /\ UNCHANGED <<full_screen_mode, capture_window, shot, cap, docVars, hkVars>>

\* main_window.py:746-761: the ESC signal and the ESC shortcut; the region
\* selection window is not modal, so the signal is also handled while it is open
exit_special_modes ==
    /\ shot.at \in {"idle", "selecting"} /\ pc = "idle"
    /\ is_working_mode
    /\ exit_working_mode
    /\ UNCHANGED <<full_screen_mode, capture_window, shot, cap, docVars, hkVars>>

\* main_window.py:210, 239-247: "show main window" of the tray icon, which
\* is shown when the working mode is entered (line 677)
show_action ==
    /\ shot.at = "idle" /\ pc = "idle"
    /\ float_ball # "none" /\ ~main_visible
    /\ main_visible' = TRUE
    /\ UNCHANGED <<is_working_mode, float_ball, full_screen_mode, capture_window,
                   shot, cap, docVars, hkVars>>

\* main_window.py:612-621: the check box of the main window
toggle_screenshot_mode ==
    /\ shot.at = "idle" /\ pc = "idle" /\ main_visible
    /\ full_screen_mode' = ~full_screen_mode
    /\ UNCHANGED <<is_working_mode, main_visible, float_ball, capture_window,
                   shot, cap, docVars, hkVars>>

\* main_window.py:839-851 -> create_document: the button of the main window
create_word_doc == shot.at = "idle" /\ main_visible /\ create_document

\* a capture handler that finds no document returns at once
\* (screenshot_manager.py:43-47, 120-124, main_window.py:1221-1225)
no_document(kind) ==
    /\ cap' = End(Began(kind), "nodoc", FALSE, float_ball, main_visible)
    /\ UNCHANGED <<is_working_mode, main_visible, float_ball, full_screen_mode,
                   capture_window, shot, docVars, hkVars>>

\* screenshot_manager.py:187-212: process_screenshot_with_dialog hides a
\* visible float ball and opens the ScreenshotDialog
dialog_opened(kind, fbv, fb, mv, c) ==
    /\ float_ball' = Hidden(fb)
    /\ main_visible' = mv
    /\ shot' = [at |-> "dialog", kind |-> kind, float_ball_visible |-> fbv,
                dialog_visible |-> fb = "shown"]
    /\ cap' = c

\* screenshot_manager.py:34-105 up to the ScreenshotDialog
take_fullscreen_screenshot ==
    /\ shot.at = "idle" /\ pc = "idle"
    /\ IF word_doc.kind # "doc"
       THEN no_document("fullscreen")
       ELSE LET fbv == float_ball = "shown"
                hid == Hidden(float_ball)
            IN  /\ \E grabbed \in BOOLEAN :
                      IF grabbed
                      THEN dialog_opened("fullscreen", fbv, hid, main_visible,
                                         Grabbed(Began("fullscreen"), hid))
                      ELSE \* lines 73-80: no primary screen or a null pixmap;
                           \* then lines 95-105
                           LET restored == IF fbv THEN "shown" ELSE hid
                               after == IF is_working_mode THEN Shown(restored)
                                        ELSE restored
                           IN  /\ float_ball' = after
                               /\ cap' = End(Began("fullscreen"), "failure", FALSE,
                                             after, main_visible)
                               /\ UNCHANGED <<main_visible, shot>>
                /\ UNCHANGED <<is_working_mode, full_screen_mode, capture_window,
                               docVars, hkVars>>

\* screenshot_manager.py:107-174 with the region forced or asked for; the
\* CaptureWindow grabs the screen when it is constructed (capture_window.py:30)
start_area_capture(kind, auto) ==
    IF word_doc.kind # "doc"
    THEN no_document(kind)
    ELSE LET hid == Hidden(ensure_window_state_for_screenshot(float_ball)) IN
         /\ \E created \in BOOLEAN :
               IF created
               THEN /\ main_visible' = FALSE
                    /\ float_ball' = hid
                    /\ capture_window' = [open |-> TRUE, auto_save_mode |-> auto,
                                          float_ball_visible |-> FALSE]
                    /\ shot' = [NoShot EXCEPT !.at = "selecting", !.kind = kind]
                    /\ cap' = Grabbed(Began(kind), hid)
               ELSE \* lines 162-174
                    LET ball == IF is_working_mode THEN Shown(hid) ELSE hid
                        main == ~(is_working_mode /\ hid # "none")
                    IN  /\ float_ball' = ball
                        /\ main_visible' = main
                        /\ cap' = End(Began(kind), "exception", FALSE, ball, main)
                        /\ UNCHANGED <<capture_window, shot>>
         /\ UNCHANGED <<is_working_mode, full_screen_mode, docVars, hkVars>>

\* main_window.py:769-777: the area signal, the capture button, the tray menu
start_capture ==
    /\ shot.at = "idle" /\ pc = "idle"
    /\ start_area_capture("region", FALSE)

\* main_window.py:1214-1269 up to the commit or to the selection window
take_auto_save_screenshot ==
    /\ shot.at = "idle" /\ pc = "idle"
    /\ IF word_doc.kind = "doc" /\ full_screen_mode
       THEN LET ball == ensure_window_state_for_screenshot(float_ball) IN
            \E grabbed \in BOOLEAN :
               IF grabbed
               THEN \* process_screenshot_auto_save calls add_screenshot
                    /\ add_screenshot_text({DefaultText})
                    /\ float_ball' = ball
                    /\ shot' = [NoShot EXCEPT !.at = "adding", !.kind = "auto"]
                    /\ cap' = Handed(Grabbed(Began("auto"), ball))
                    /\ UNCHANGED <<is_working_mode, main_visible, full_screen_mode,
                                   capture_window>>
               ELSE /\ float_ball' = ball
                    /\ cap' = End(Began("auto"), "failure", FALSE, ball, main_visible)
                    /\ UNCHANGED <<is_working_mode, main_visible, full_screen_mode,
                                   capture_window, shot, docVars, hkVars>>
       ELSE start_area_capture("auto", TRUE)

\* event_filter.py:38-54: ESC pressed while the selection window is open.  The
\* filter installed on the application (main_window.py:74-75) sees the key
\* press before the window does; the focus is not on a FullscreenImageViewer,
\* so it calls exit_special_modes and returns True, and the key press never
\* reaches CaptureWindow.keyPressEvent (capture_window.py:86-97)
eventFilter ==
    /\ shot.at = "selecting" /\ pc = "idle"
    /\ IF is_working_mode THEN exit_working_mode
       ELSE UNCHANGED <<is_working_mode, float_ball, main_visible>>
    /\ cap' = [cap EXCEPT !.esc = TRUE]
    /\ UNCHANGED <<full_screen_mode, capture_window, shot, docVars, hkVars>>

\* capture_window.py:126-138, 161-200: the mouse button is released on a
\* click without a drag, on an empty rectangle or on a region
capture_screenshot ==
    /\ shot.at = "selecting"
    /\ \E sel \in {"click", "zero", "region"} :
          LET r == restore_parent_window(float_ball, main_visible) IN
          IF sel # "region"
          THEN \* lines 166-179
               /\ float_ball' = r.ball /\ main_visible' = r.main
               /\ cap' = End(cap, sel, FALSE, r.ball, r.main)
               /\ shot' = NoShot
               /\ UNCHANGED <<docVars, hkVars>>
          ELSE IF capture_window.auto_save_mode
          THEN \* lines 190-196
               /\ add_screenshot_text({DefaultText})
               /\ float_ball' = r.ball /\ main_visible' = r.main
               /\ shot' = [shot EXCEPT !.at = "adding"]
               /\ cap' = Handed(cap)
          ELSE \* lines 197-200
               /\ dialog_opened(shot.kind, FALSE, float_ball, main_visible, cap)
               /\ UNCHANGED <<docVars, hkVars>>
    /\ capture_window' = [capture_window EXCEPT !.open = FALSE]
    /\ UNCHANGED <<is_working_mode, full_screen_mode>>

\* screenshot_manager.py:222-228, 276-291, then 87-93: the dialog is rejected
process_screenshot_with_dialog_rejected ==
    /\ shot.at = "dialog"
    /\ LET r == ShowForMode(ShownAgain(shot.dialog_visible, float_ball), main_visible)
           ball == ShownAgain(shot.float_ball_visible, r.ball)
       IN  /\ float_ball' = ball /\ main_visible' = r.main
           /\ cap' = [End(cap, "rejected", FALSE, ball, r.main) EXCEPT !.dialog = "rejected"]
    /\ shot' = NoShot
    /\ UNCHANGED <<is_working_mode, full_screen_mode, capture_window, docVars, hkVars>>

\* screenshot_manager.py:222-250: the dialog is accepted and the capture is
\* handed to add_screenshot
process_screenshot_with_dialog_accepted ==
    /\ shot.at = "dialog"
    /\ \E text \in Captions(ncap + 1) :
          /\ add_screenshot_text({text})
          /\ cap' = Handed([cap EXCEPT !.dialog = "accepted", !.text = text])
    /\ float_ball' = ShownAgain(shot.dialog_visible, float_ball)
    /\ shot' = [shot EXCEPT !.at = "adding"]
    /\ UNCHANGED <<is_working_mode, main_visible, full_screen_mode, capture_window>>

\* screenshot_manager.py:252-276 and 87-93, or 400-444: add_screenshot has
\* returned
process_screenshot_committed ==
    /\ shot.at = "adding" /\ pc = "idle"
    /\ LET r == ShowForMode(float_ball, main_visible)
           ball == ShownAgain(shot.float_ball_visible, r.ball)
       IN  /\ float_ball' = ball /\ main_visible' = r.main
           /\ cap' = End(cap, "commit", TRUE, ball, r.main)
    /\ shot' = NoShot
    /\ UNCHANGED <<is_working_mode, full_screen_mode, capture_window, docVars, hkVars>>

\* main_window.py:55-56 and screenshot_manager.py:31-32
InitUI ==
    /\ is_working_mode = FALSE /\ main_visible = TRUE /\ float_ball = "none"
    /\ full_screen_mode = TRUE
    /\ capture_window = NoWindow
    /\ shot = NoShot
    /\ cap = CapNone

----------------------------------------------------------------------------
\* a document written in an earlier session that the file dialog can name: a
\* heading, one capture and the empty paragraph after it
ExistingDocument ==
    add_paragraph(add_picture(add_paragraph(NewDocument, HeadingText), ExtImages[1]), "")

InitDoc ==
    /\ word_doc = None /\ word_path = NoPath
    /\ last_modified_time = 0
    /\ original_paragraphs = <<>> /\ original_rels_count = 0
    /\ original_rel_ids = [set |-> FALSE, ids |-> {}]
    /\ current_image_path = "" /\ current_text_description = ""
    /\ fTarget \in {Absent, FileOf(ExistingDocument, 0)}
    /\ fBak = Absent /\ fTmp = Absent
    /\ clock = 0
    /\ pc = "idle" /\ caller = "" /\ waiting = <<>>
    /\ ncap = 0 /\ nedit = 0 /\ nfault = 0
    /\ g_sync = 0 /\ g_base = None
    /\ obs = ObsNone
    /\ quiet = FALSE /\ scen = 0

Kinds == {"fullscreen", "area", "esc"}

\* hotkey_manager.py:26: last_hotkey_time = {} has no entry for a kind yet
NoTime == -1
HookIdle == [kind |-> "", at |-> "idle", left |-> 0]
PollIdle == [kind |-> "", at |-> "idle"]

\* hotkey_manager.py:26-31 and main_window.py:85-90; register_hotkeys has
\* been called once and has registered the callbacks or failed
InitBridge ==
    /\ hk_now = 0
    /\ last_hotkey_time = [k \in Kinds |-> NoTime]
    /\ pending = [k \in Kinds |-> FALSE]
    /\ emitted = <<>>
    /\ pcPoll = PollIdle /\ pcHook = HookIdle
    /\ lastTick = 0
    /\ hooks \in {0, 1} /\ listener = "running" /\ nhook = 0
    /\ fired = <<>> /\ accepted = <<>>
    /\ owed = [k \in Kinds |-> FALSE]
    /\ presses = <<>> /\ stopped = 0
    /\ hotkey_check_timer = "active" /\ ignored = 0

Init == InitDoc /\ InitBridge /\ InitUI

Next ==
    \/ create_document
    \/ create_document_backup
    \/ create_document_rename
    \/ open_document
    \/ save_document
    \/ save_document_decide
    \/ save_document_backup
    \/ save_document_write
    \/ save_document_written
    \/ save_document_restore
    \/ add_screenshot
    \/ close_document
    \/ ExternalEdit

Spec == Init /\ [][Next]_vars

\* the document manager driven by the windows and the capture handlers
NextCapture ==
    \/ create_word_doc
    \/ create_document_backup
    \/ create_document_rename
    \/ toggle_working_mode
    \/ exit_special_modes
    \/ show_action
    \/ toggle_screenshot_mode
    \/ take_fullscreen_screenshot
    \/ start_capture
    \/ take_auto_save_screenshot
    \/ eventFilter
    \/ capture_screenshot
    \/ process_screenshot_with_dialog_rejected
    \/ process_screenshot_with_dialog_accepted
    \/ process_screenshot_committed
    \/ save_document_backup
    \/ save_document_write
    \/ save_document_written
    \/ save_document_restore

SpecCapture == Init /\ [][NextCapture]_vars

----------------------------------------------------------------------------
(* Properties of the document manager, checked under Spec.                   *)

IsPrefix(a, b) == Len(a) <= Len(b) /\ SubSeq(b, 1, Len(a)) = a
Suffix(b, n) == SubSeq(b, n + 1, Len(b))
Pics(ps) == LET withPic(q) == q.pic # "" IN [i \in 1..Len(SelectSeq(ps, withPic)) |->
                                              SelectSeq(ps, withPic)[i].pic]

RECURSIVE IsSubseq(_, _)
IsSubseq(a, b) ==
    IF a = <<>> THEN TRUE
    ELSE IF b = <<>> THEN FALSE
    ELSE IF Head(a) = Head(b) THEN IsSubseq(Tail(a), Tail(b))
    ELSE IsSubseq(a, Tail(b))

Savers == {"menu", "add", "close"}
\* a save_document call that took the Merge decision has written the target
MergeWritten == obs.caller \in Savers /\ obs.result = "ok" /\ obs.decision = "Merge"
\* the external copy and the in-memory document both extend the baseline, the
\* in-memory one by nothing or by one capture
ExtendsBaseline ==
    /\ obs.base.kind = "doc"
    /\ IsPrefix(obs.base.paras, obs.pre.paras)
    /\ \/ obs.mem = obs.base
       \/ obs.img # "" /\ obs.mem = AppendCapture(obs.base, obs.img, obs.text)

\* C1: a merge writes the N baseline paragraphs, then the k paragraphs the
\* external copy added, in their order, then the content appended in the
\* application (nothing, or caption + picture + empty paragraph), for every k.
C1_MergeParagraphOrder ==
    (MergeWritten /\ ExtendsBaseline) =>
        LET n == Len(obs.base.paras)
            k == Len(obs.pre.paras) - n
            expected == obs.pre.paras \o Suffix(obs.mem.paras, n)
        IN  /\ Len(fTarget.paras) >= Len(expected)
            /\ \A i \in 1..Len(expected) :
                  /\ fTarget.paras[i].text = expected[i].text
                  /\ i > n + k => fTarget.paras[i] = expected[i]

InSave == pc \notin {"idle", "exited"}

\* C3: in every save the target changes only by the rename of the completely
\* written temp file, and the target is never missing, truncated or partial
\* while a save is under way.
C3_WriteThroughTemp ==
    /\ [](InSave /\ obs.pre.kind = "doc" => fTarget.kind = "doc")
    /\ [][InSave /\ fTarget' # fTarget => fTmp.kind = "doc" /\ fTarget' = fTmp]_vars

\* C4: at every step of a save, the target still holds its complete pre-save
\* content or the .bak file holds exactly that content.
C4_CrashSafe ==
    (InSave /\ obs.pre.kind = "doc") =>
        \/ DocOf(fTarget) = DocOf(obs.pre) /\ fTarget.kind = "doc"
        \/ DocOf(fBak) = DocOf(obs.pre) /\ fBak.kind = "doc"

\* the images of the relationships the external copy has and the baseline has
\* not, in relationship order
NewExternalImages ==
    LET isNew(r) == r.type = "image" /\ r.id \notin RelIds(obs.base)
        rs == SelectSeq(obs.pre.rels, isNew)
    IN  [i \in 1..Len(rs) |-> rs[i].img]

\* C5: a merge puts every image the external copy has added since the baseline
\* into the result, in relationship order, for every number of added paragraphs.
C5_MergeExternalImages ==
    (MergeWritten /\ obs.base.kind = "doc") =>
        IsSubseq(NewExternalImages, Pics(fTarget.paras))

\* Scenario B: D0 saved, one paragraph appended externally, one capture with a
\* caption appended in the application, the save merged.
ScenarioB ==
    /\ MergeWritten /\ obs.caller = "add" /\ obs.text # ""
    /\ obs.base.kind = "doc"
    /\ obs.pre.paras = Append(obs.base.paras, Para(ExtTexts[1], ""))
    /\ obs.pre.rels = obs.base.rels
    /\ obs.mem = AppendCapture(obs.base, obs.img, obs.text)

\* C6 as stated: the written blocks are exactly D0's, "X", the caption, the image.
C6_ScenarioB_AsStated ==
    ScenarioB =>
        fTarget.paras = obs.base.paras \o
            <<Para(ExtTexts[1], ""), Para(obs.text, ""), Para("", obs.img)>>

\* C6 (amended): the written blocks are D0's, "X", the caption, the image, and
\* the empty paragraph that follows every appended picture.
C6_ScenarioB ==
    ScenarioB =>
        fTarget.paras = obs.base.paras \o
            <<Para(ExtTexts[1], ""), Para(obs.text, ""), Para("", obs.img), Para("", "")>>

C6_Witness == ScenarioB

\* Scenario A: a document created, one capture with caption "A" appended and
\* saved, the file loaded again.
ScenarioA == scen = 4 /\ pc = "idle"

\* C7 as stated: the reloaded document is exactly the text "A" and one image.
C7_ScenarioA_AsStated ==
    ScenarioA => word_doc.paras = <<Para("A", ""), Para("", CapNames[1])>>

\* C7 (amended): the reloaded document has exactly one text block "A" followed
\* by exactly one image block, after the title and the creation time that
\* create_document writes into every new document, and before one empty paragraph.
C7_ScenarioA ==
    ScenarioA =>
        word_doc.paras = <<Para(HeadingText, ""), Para(CreatedText, ""),
                           Para("A", ""), Para("", CapNames[1]), Para("", "")>>

C7_Witness == ScenarioA

\* C8: a save_document call that follows a successful save_document with no
\* change in between asks no decision, succeeds unless a file operation fails,
\* and leaves the baseline as the first save left it.
C8_IdempotentSave ==
    (obs.caller \in Savers /\ obs.quiet) =>
        /\ ~obs.asked
        /\ obs.result # "stopped"
        /\ obs.result = "fail" => nfault > obs.faults
        /\ obs.result = "ok" => Baseline = obs.snap

C8_Witness == obs.caller \in Savers /\ obs.quiet /\ obs.result = "ok" /\ pc = "idle"

\* C15: when the merge raises, the user is asked Overwrite or Cancel; Cancel
\* ends the save with a failure and nothing is written, and Overwrite writes
\* exactly the in-memory document as it was before the conflict path started.
C15_MergeFailureDecision ==
    /\ (obs.caller \in Savers /\ obs.decision = "MergeFailedCancel") =>
          obs.result = "stopped" /\ fTarget = obs.pre
    /\ (obs.caller \in Savers /\ obs.decision = "MergeFailedOverwrite"
        /\ obs.result = "ok") => DocOf(fTarget) = obs.mem

\* C16: when the write step of save_document or create_document has failed,
\* the temp file is gone, and a target whose backup was made in this call is
\* restored from it (the restore itself not failing).
C16_WriteFailureRecovery ==
    (obs.caller \in Savers \cup {"create"} /\ obs.result = "fail" /\ pc = "idle") =>
        /\ fTmp.kind = "absent"
        /\ (obs.pre.kind = "doc" /\ fBak = obs.pre /\ nfault = obs.faults + 1) =>
              fTarget = obs.pre

\* C17: add_screenshot returns success only when the save it triggered
\* succeeded; after a save that was cancelled at a prompt or failed to write it
\* returns failure.
C17_ExplicitAppendResult ==
    (obs.caller = "add" /\ pc = "idle") => (obs.ret <=> obs.result = "ok")

\* C18: close_document(ask_save=True) with Cancel leaves the document open
\* and unchanged; with the answer No it closes without a write; with Save it
\* closes after a successful save, and after a failed save it closes only on
\* confirmation and otherwise leaves the document open.  After every close
\* word_doc and word_path are both unset.
C18_CloseDecisions ==
    /\ (obs.caller = "close_document" /\ obs.decision = "Cancel") =>
          /\ pc = "idle" /\ word_doc = obs.mem /\ word_path = obs.path
          /\ fTarget = obs.pre
    /\ (obs.caller = "close_document" /\ obs.decision = "No") =>
          pc = "exited" /\ fTarget = obs.pre
    /\ (obs.caller = "close" /\ obs.result = "ok") => pc = "exited"
    /\ (obs.caller = "close" /\ pc = "idle") =>
          /\ obs.result \in {"stopped", "fail"}
          /\ word_doc.kind = "doc" /\ word_path = obs.path
    /\ pc = "exited" => word_doc = None /\ word_path = NoPath

\* the save asked for at the close failed and the user kept the document open
C18_Witness == obs.caller = "close" /\ obs.result = "fail" /\ pc = "idle"

\* C19: the baseline (original_paragraphs, original_rels_count,
\* original_rel_ids) and last_modified_time change only in a step in which a
\* create, an open or a save of the document has just succeeded.
C19_BaselineOnlyOnSuccess ==
    [][(Baseline' # Baseline \/ last_modified_time' # last_modified_time) =>
          obs'.result = "ok" /\ obs'.caller \in Savers \cup {"create", "open"}]_vars

\* the save_document calls under way: those waiting in their conflict dialog
\* and the one between its backup and its return
InFlight ==
    Len(waiting) +
    (IF pc \in {"save_backup", "save_write", "save_writing", "save_restore"} THEN 1 ELSE 0)

\* C14: at most one save_document / add_screenshot call is in progress at any
\* time; a capture that arrives while a save waits in its decision dialog
\* does not start a second append or save before the first has returned.
C14_SingleInFlightSave == InFlight <= 1

\* the captures that have a picture paragraph in ps
Captured(ps) == {ps[i].pic : i \in 1..Len(ps)} \cap Range(CapNames)

\* C21: a capture that is in the in-memory document but in no document the
\* application has written or loaded (its own save was cancelled or failed)
\* is in the file after the next successful save_document, whatever decision
\* that save took.
C21_NoSilentLoss ==
    (obs.caller \in {"menu", "close"} /\ obs.result = "ok") =>
        (Captured(obs.mem.paras) \ Captured(obs.base.paras)) \subseteq Captured(fTarget.paras)

\* the places of the picture of image img in ps
PlacesOf(ps, img) == {i \in 1..Len(ps) : ps[i].pic = img}

\* C22: when a merge with a pending capture finds more paragraphs in the
\* external copy than in the baseline, the external paragraphs beyond the
\* baseline count stand in the merged document at their places, before the
\* caption and the picture of the capture.
C22_ExternalBeforePending ==
    (/\ MergeWritten /\ ExtendsBaseline /\ obs.img # ""
     /\ Len(obs.pre.paras) > Len(obs.base.paras)) =>
        /\ Len(fTarget.paras) >= Len(obs.pre.paras)
        /\ \A i \in (Len(obs.base.paras) + 1)..Len(obs.pre.paras) :
              /\ fTarget.paras[i].text = obs.pre.paras[i].text
              /\ \A p \in PlacesOf(fTarget.paras, obs.img) :
                    i < p - (IF obs.text # "" THEN 1 ELSE 0)

\* the paragraphs of ps that are not empty
NonEmpty(ps) == LET filled(q) == q.text # "" \/ q.pic # "" IN SelectSeq(ps, filled)

\* the caption and the picture of the pending capture of the observed save
PendingEdit ==
    IF obs.img = "" THEN <<>>
    ELSE IF obs.text # "" THEN <<Para(obs.text, ""), Para("", obs.img)>>
    ELSE <<Para("", obs.img)>>

\* C23: a merge that finds no more paragraphs in the external copy than in
\* the baseline writes the external document followed only by the pending
\* capture (caption, picture), or by nothing when no capture is pending.
C23_ExternalAsBase ==
    (/\ MergeWritten /\ obs.base.kind = "doc"
     /\ \/ obs.img = "" /\ obs.mem = obs.base
        \/ obs.img # "" /\ obs.mem = AppendCapture(obs.base, obs.img, obs.text)
     /\ Len(obs.pre.paras) <= Len(obs.base.paras)) =>
        /\ IsPrefix(obs.pre.paras, fTarget.paras)
        /\ NonEmpty(Suffix(fTarget.paras, Len(obs.pre.paras))) = PendingEdit

\* the images the relationships of document d hold
ImagesOf(d) == {r.img : r \in {q \in Range(d.rels) : q.type = "image"}}

\* the images of the external document whose relationship ids the baseline lacks
NewToBaseline(ext, base) ==
    {r.img : r \in {q \in Range(ext.rels) : q.type = "image" /\ q.id \notin RelIds(base)}}

C26_BaselineRefreshed ==
    (obs.caller \in Savers /\ obs.result = "ok") =>
        /\ original_paragraphs = Texts(fTarget.paras)
        /\ original_rel_ids = [set |-> TRUE, ids |-> RelIds(fTarget)]
        /\ original_rels_count = Len(fTarget.rels)
        /\ last_modified_time = fTarget.mtime

\* the step in which the conflict dialog is answered Cancel
CancelStep ==
    /\ pc = "save_ask" /\ Len(waiting') < Len(waiting)
    /\ obs'.decision = "Cancel" /\ obs'.result = "stopped"

\* C27: Cancel at the Merge/Overwrite/Cancel prompt makes save_document return
\* failure and leaves the target file, the .bak file, the in-memory document,
\* the baseline and last_modified_time as they were when Cancel was chosen, so
\* that a conflict there at that moment is still there for the next
\* save_document.
C27_CancelChangesNothing ==
    [][CancelStep =>
          /\ fTarget' = fTarget /\ fBak' = fBak /\ fTmp' = fTmp
          /\ Baseline' = Baseline
          /\ last_modified_time' = last_modified_time
          /\ pc' # "exited" =>
                (word_doc' = word_doc /\ word_path' = word_path /\ (Conflict => Conflict'))
          /\ obs'.caller # "add" => ~obs'.ret]_vars

C27_Witness ==
    /\ obs.caller \in Savers /\ obs.asked
    /\ obs.decision = "Cancel" /\ obs.result = "stopped"
    /\ pc = "idle" /\ word_doc = obs.mem /\ Conflict

\* C28: the capture staged by add_screenshot (current_image_path,
\* current_text_description) stays staged for the whole of its save, is cleared
\* when the save succeeded, and is still staged when the save did not succeed.
C28_PendingEditLifecycle ==
    obs.caller = "add" =>
        /\ obs.img # ""
        /\ obs.result \in {"asking", "run"} => current_image_path = obs.img
        /\ (obs.result = "ok" /\ pc = "idle") => current_image_path = ""
        /\ obs.result \in {"stopped", "fail"} =>
              /\ current_image_path = obs.img
              /\ current_text_description = obs.text

NewOrOpenFails ==
    /\ pc = "idle" /\ word_doc.kind = "doc"
    /\ obs' # obs /\ obs'.caller \in {"create", "open"}
    /\ obs'.result \in {"stopped", "fail"}

\* C35: a create_document that is cancelled or fails and an open_document that
\* fails leave the open document, its path, its baseline and last_modified_time
\* as they were.
C35_FailedNewKeepsDocument ==
    [][NewOrOpenFails =>
          /\ word_doc' = word_doc /\ word_path' = word_path
          /\ Baseline' = Baseline
          /\ last_modified_time' = last_modified_time]_vars

\* C37: restore never rolls back further than this save: whenever a failed
\* write in save_document is followed by a restore from .bak, the restored
\* target equals the target at the moment this save began; a .bak left over
\* from an earlier save is never copied over the target
C37_RestoreThisSave ==
    [][(pc = "save_restore" /\ fTarget' # fTarget) => fTarget' = obs.pre]_vars

\* C38: no image is duplicated by a merge: in the document written after a
\* Merge decision every image that the external copy shows once stands in
\* exactly one picture paragraph, also when the external copy is taken as the
\* new base and no capture is pending.
C38_NoImageDuplicated ==
    (/\ MergeWritten /\ obs.pre.kind = "doc"
     /\ fTarget = FileOf(g_base, g_sync)) =>
        \A img \in ImagesOf(DocOf(obs.pre)) :
           Cardinality(PlacesOf(obs.pre.paras, img)) = 1
              => Cardinality(PlacesOf(fTarget.paras, img)) = 1

\* C39: a failed append leaves the in-memory document as it was: whenever
\* add_screenshot returns failure (invalid pixmap, scratch file not written,
\* or a failure while adding the caption or the picture), the paragraphs of
\* the in-memory document are those before the call (no caption without its
\* image) and the capture does not remain staged.
C39_FailedAppendRollsBack ==
    [][(ncap' = ncap + 1 /\ obs'.caller = "add_screenshot" /\ obs'.result = "fail")
       => (/\ word_doc' = word_doc
           /\ current_image_path' # obs'.img)]_vars

----------------------------------------------------------------------------
(* The hotkey bridge: the callbacks that the keyboard hook thread runs       *)
(* (hotkey_manager.py:41-82) and check_hotkey_status, which the main thread  *)
(* runs on every timeout of hotkey_check_timer (hotkey_manager.py:126-154).  *)
(* Each statement that touches a shared field is one step, so the two        *)
(* threads interleave between statements.  Time passes between handlers.     *)

DebounceMs == 1000               \* the 1.0 s of the debounce tests
PollMs == 500                    \* hotkey_check_timer.start(500)
Quantum == PollMs \div 2         \* granularity of the modelled clock
MaxTime == MaxTicks * PollMs

\* the order in which check_hotkey_status tests the three flags
CheckOrder == <<"fullscreen", "area", "esc">>
IndexOf(k) == CHOOSE i \in 1..Len(CheckOrder) : CheckOrder[i] = k
AfterKind(k) ==
    IF IndexOf(k) < Len(CheckOrder)
    THEN [kind |-> CheckOrder[IndexOf(k) + 1], at |-> "test"]
    ELSE PollIdle

\* sensitivity variant of Debounced: no firing is ever ignored
Debounced_Never(last_time, current_time) == FALSE

\* lines 46, 62, 74: if last_time and (current_time - last_time).total_seconds() < 1.0
Debounced(last_time, current_time) ==
    last_time # NoTime /\ current_time - last_time < DebounceMs

\* the hook thread after a callback has returned: the next callback that the
\* library holds for the same key press, or none
Following(k, left) ==
    IF left > 0 THEN [kind |-> k, at |-> "next", left |-> left] ELSE HookIdle

\* entry of a hook callback for kind k, with left more callbacks of the same
\* key press after it: reads the clock and the last time, and returns when
\* the firing is a repeat (lines 44-48, 60-64, 72-76)
callback(k, left, press) ==
    /\ fired' = Append(fired, [kind |-> k, t |-> hk_now, tick |-> lastTick, press |-> press])
    /\ IF Debounced(last_hotkey_time[k], hk_now)
       THEN /\ pcHook' = Following(k, left)
            /\ UNCHANGED <<accepted, owed>>
       ELSE /\ pcHook' = [kind |-> k, at |-> "stamp", left |-> left]
            /\ accepted' = Append(accepted, [kind |-> k, t |-> hk_now, tick |-> lastTick,
                                             press |-> press])
            /\ owed' = [owed EXCEPT ![k] = TRUE]

\* a key press of kind k: the library runs the callbacks registered for the
\* hotkey one after the other on the hook thread
emit_signal(k) ==
    /\ pcHook = HookIdle /\ hooks > 0 /\ Len(fired) + hooks <= MaxFirings
    /\ presses' = Append(presses, [kind |-> k, handlers |-> hooks])
    /\ callback(k, hooks - 1, Len(presses) + 1)
    /\ UNCHANGED <<hk_now, last_hotkey_time, pending, emitted, pcPoll, lastTick,
                   hooks, listener, nhook, stopped>>
    /\ UNCHANGED <<docVars, uiVars, hotkey_check_timer, ignored>>

\* lines 55, 84, 85: the callbacks the library runs for a key press of kind k;
\* add_hotkey is called for 'f12', 'ctrl+f12' and 'esc' and for no other key
RegisteredFor(k) == IF k \in Kinds THEN hooks ELSE 0

\* F11 is pressed while the listener is registered: no callback is registered
\* for it, _safe_emit_signal("auto_save") (main_window.py:133-135) has no
\* caller, and inside the application the event filter swallows the key press
\* (event_filter.py:64-69)
press_f11 ==
    /\ pcHook = HookIdle /\ hooks > 0 /\ Len(presses) < MaxFirings
    /\ Cardinality({i \in 1..Len(presses) : presses[i].kind = "auto_save"}) < MaxAutoPresses
    /\ presses' = Append(presses, [kind |-> "auto_save",
                                   handlers |-> RegisteredFor("auto_save"),
                                   tick |-> lastTick])
    /\ UNCHANGED <<hk_now, last_hotkey_time, pending, emitted, pcPoll, pcHook, lastTick,
                   fired, accepted, owed, hooks, listener, nhook, stopped>>
    /\ UNCHANGED <<docVars, uiVars, hotkey_check_timer, ignored>>

emit_fullscreen_signal == emit_signal("fullscreen")
emit_area_signal == emit_signal("area")
emit_esc_signal == emit_signal("esc")

\* the callback of a second registration runs for the same key press
emit_signal_next ==
    /\ pcHook.at = "next"
    /\ callback(pcHook.kind, pcHook.left - 1, Len(presses))
    /\ UNCHANGED <<hk_now, last_hotkey_time, pending, emitted, pcPoll, lastTick,
                   hooks, listener, nhook, presses, stopped>>
    /\ UNCHANGED <<docVars, uiVars, hotkey_check_timer, ignored>>

\* lines 50, 66, 78: self.last_hotkey_time[kind] = current_time
emit_signal_stamp ==
    /\ pcHook.at = "stamp"
    /\ last_hotkey_time' = [last_hotkey_time EXCEPT ![pcHook.kind] = hk_now]
    /\ pcHook' = [pcHook EXCEPT !.at = "flag"]
    /\ UNCHANGED <<hk_now, pending, emitted, pcPoll, lastTick, fired, accepted, owed>>
    /\ UNCHANGED <<hooks, listener, nhook, presses, stopped>>
    /\ UNCHANGED <<docVars, uiVars, hotkey_check_timer, ignored>>

\* sensitivity variant of emit_signal_flag: the callback raises every flag
emit_signal_flag_All ==
    /\ pcHook.at = "flag"
    /\ pending' = [k \in Kinds |-> TRUE]
    /\ pcHook' = Following(pcHook.kind, pcHook.left)
    /\ UNCHANGED <<hk_now, last_hotkey_time, emitted, pcPoll, lastTick, fired, accepted, owed>>
    /\ UNCHANGED <<hooks, listener, nhook, presses, stopped>>
    /\ UNCHANGED <<docVars, uiVars, hotkey_check_timer, ignored>>

\* lines 51, 67, 79: self._pending_<kind> = True
emit_signal_flag ==
    /\ pcHook.at = "flag"
    /\ pending' = [pending EXCEPT ![pcHook.kind] = TRUE]
    /\ pcHook' = Following(pcHook.kind, pcHook.left)
    /\ UNCHANGED <<hk_now, last_hotkey_time, emitted, pcPoll, lastTick, fired, accepted, owed>>
    /\ UNCHANGED <<hooks, listener, nhook, presses, stopped>>
    /\ UNCHANGED <<docVars, uiVars, hotkey_check_timer, ignored>>

\* sensitivity variant of unhook_all: the callbacks stay registered
unhook_all_Kept(h) == h

\* keyboard.unhook_all() and keyboard._hotkeys.clear() (lines 98-102)
unhook_all(h) == 0

\* lines 35-90: the three keyboard.add_hotkey calls add one callback per
\* hotkey to those already registered; a call that raises (no listener, no
\* permission) is logged and registers nothing
register_hotkeys ==
    /\ pcPoll = PollIdle /\ nhook < MaxHookCalls
    /\ nhook' = nhook + 1
    /\ \E ok \in BOOLEAN :
          hooks' = IF ok /\ listener = "running" THEN hooks + 1 ELSE hooks
    /\ UNCHANGED <<hk_now, last_hotkey_time, pending, emitted, pcPoll, pcHook, lastTick,
                   listener, fired, accepted, owed, presses, stopped>>
    /\ UNCHANGED <<docVars, uiVars, hotkey_check_timer, ignored>>

\* lines 92-124: the hooks are removed and keyboard._listener is set to None;
\* on a second call keyboard.unhook_all() raises on the missing listener and
\* the exception is logged
unregister_hotkeys ==
    /\ pcPoll = PollIdle /\ nhook < MaxHookCalls
    /\ nhook' = nhook + 1
    /\ IF listener = "running"
       THEN hooks' = unhook_all(hooks) /\ listener' = "none"
       ELSE UNCHANGED <<hooks, listener>>
    /\ stopped' = Len(accepted)
    /\ UNCHANGED <<hk_now, last_hotkey_time, pending, emitted, pcPoll, pcHook, lastTick,
                   fired, accepted, owed, presses>>
    /\ UNCHANGED <<docVars, uiVars, hotkey_check_timer, ignored>>

\* the timeout of hotkey_check_timer (main_window.py:88-90) falls due; a
\* stopped timer has no timeout
TickDue ==
    /\ hotkey_check_timer = "active"
    /\ hk_now > 0 /\ hk_now % PollMs = 0 /\ lastTick # hk_now

\* main_window.py:937-938: self.hotkey_check_timer.stop()
TimerStopped(t) == "stopped"

\* main_window.py:925-948: the window is asked to close while a document is
\* open; the hotkeys are unregistered and the poll timer is stopped first,
\* then close_document returns False (Cancel at the save prompt, or a failed
\* save that the user does not discard) and the event is ignored: the window
\* stays, and nothing registers the hotkeys or starts the timer again
closeEvent_ignored ==
    /\ pcPoll = PollIdle /\ nhook < MaxHookCalls /\ ignored < MaxCloses
    /\ nhook' = nhook + 1
    /\ IF listener = "running"
       THEN hooks' = unhook_all(hooks) /\ listener' = "none"
       ELSE UNCHANGED <<hooks, listener>>
    /\ stopped' = Len(accepted)
    /\ hotkey_check_timer' = TimerStopped(hotkey_check_timer)
    /\ ignored' = ignored + 1
    /\ UNCHANGED <<hk_now, last_hotkey_time, pending, emitted, pcPoll, pcHook, lastTick,
                   fired, accepted, owed, presses>>
    /\ UNCHANGED <<docVars, uiVars>>

\* the timer's timeout calls check_hotkey_status (main_window.py:88-90)
check_hotkey_status ==
    /\ pcPoll = PollIdle /\ TickDue
    /\ lastTick' = hk_now
    /\ pcPoll' = [kind |-> CheckOrder[1], at |-> "test"]
    /\ UNCHANGED <<hk_now, last_hotkey_time, pending, emitted, pcHook, fired, accepted, owed>>
    /\ UNCHANGED <<hooks, listener, nhook, presses, stopped>>
    /\ UNCHANGED <<docVars, uiVars, hotkey_check_timer, ignored>>

\* lines 135, 141, 147: if self._pending_<kind>:
check_hotkey_status_test ==
    /\ pcPoll.at = "test"
    /\ pcPoll' = IF pending[pcPoll.kind] THEN [pcPoll EXCEPT !.at = "clear"]
                 ELSE AfterKind(pcPoll.kind)
    /\ UNCHANGED <<hk_now, last_hotkey_time, pending, emitted, pcHook, lastTick,
                   fired, accepted, owed>>
    /\ UNCHANGED <<hooks, listener, nhook, presses, stopped>>
    /\ UNCHANGED <<docVars, uiVars, hotkey_check_timer, ignored>>

\* sensitivity variant of Lowered: the flag is left up
Lowered_Kept(flags, k) == flags

\* lines 137, 143, 149: self._pending_<kind> = False
Lowered(flags, k) == [flags EXCEPT ![k] = FALSE]

\* the flag of the kind under test is lowered; the firings accepted so far are
\* drained with it, except one whose callback has not raised the flag yet
check_hotkey_status_clear ==
    /\ pcPoll.at = "clear"
    /\ pending' = Lowered(pending, pcPoll.kind)
    /\ pcPoll' = [pcPoll EXCEPT !.at = "emit"]
    /\ owed' = [owed EXCEPT ![pcPoll.kind] =
                    pcHook.kind = pcPoll.kind /\ pcHook.at \in {"stamp", "flag"}]
    /\ UNCHANGED <<hk_now, last_hotkey_time, emitted, pcHook, lastTick, fired, accepted>>
    /\ UNCHANGED <<hooks, listener, nhook, presses, stopped>>
    /\ UNCHANGED <<docVars, uiVars, hotkey_check_timer, ignored>>

\* lines 139, 145, 151: self.parent.<kind>_signal.emit(); the connections are
\* queued (main_window.py:103-105), so the slots run in the order of the emits
check_hotkey_status_emit ==
    /\ pcPoll.at = "emit"
    /\ emitted' = Append(emitted, pcPoll.kind)
    /\ pcPoll' = AfterKind(pcPoll.kind)
    /\ UNCHANGED <<hk_now, last_hotkey_time, pending, pcHook, lastTick, fired, accepted, owed>>
    /\ UNCHANGED <<hooks, listener, nhook, presses, stopped>>
    /\ UNCHANGED <<docVars, uiVars, hotkey_check_timer, ignored>>

\* the main thread is busy in another handler (a capture, a file write) when
\* the timeout falls due, and this poll does not take place
MainThreadBusy ==
    /\ pcPoll = PollIdle /\ TickDue
    /\ lastTick' = hk_now
    /\ UNCHANGED <<hk_now, last_hotkey_time, pending, emitted, pcPoll, pcHook,
                   fired, accepted, owed>>
    /\ UNCHANGED <<hooks, listener, nhook, presses, stopped>>
    /\ UNCHANGED <<docVars, uiVars, hotkey_check_timer, ignored>>

\* time passes while both threads are between handlers; a due timeout is
\* taken before the clock moves on
TimePasses ==
    /\ pcHook = HookIdle /\ pcPoll = PollIdle
    /\ ~TickDue /\ hk_now < MaxTime
    /\ hk_now' = hk_now + Quantum
    /\ UNCHANGED <<last_hotkey_time, pending, emitted, pcPoll, pcHook, lastTick,
                   fired, accepted, owed>>
    /\ UNCHANGED <<hooks, listener, nhook, presses, stopped>>
    /\ UNCHANGED <<docVars, uiVars, hotkey_check_timer, ignored>>

NextBridge ==
    \/ emit_fullscreen_signal
    \/ emit_area_signal
    \/ emit_esc_signal
    \/ press_f11
    \/ emit_signal_next
    \/ emit_signal_stamp
    \/ emit_signal_flag
    \/ check_hotkey_status
    \/ check_hotkey_status_test
    \/ check_hotkey_status_clear
    \/ check_hotkey_status_emit
    \/ MainThreadBusy
    \/ TimePasses
    \/ register_hotkeys
    \/ unregister_hotkeys
    \/ closeEvent_ignored

SpecBridge == Init /\ [][NextBridge]_vars

----------------------------------------------------------------------------
(* Properties of the hotkey bridge, checked under SpecBridge.                *)

FiringsOf(k) == LET isK(f) == f.kind = k IN SelectSeq(fired, isK)
Count(seq, k) == LET isK(x) == x = k IN Len(SelectSeq(seq, isK))
PositionOf(seq, k) == CHOOSE i \in 1..Len(seq) : seq[i] = k
AcceptedKinds == [i \in 1..Len(accepted) |-> accepted[i].kind]

\* exactly two firings of kind k, less than 1.0 s apart
TwoCloseFirings(k) ==
    /\ Len(FiringsOf(k)) = 2
    /\ FiringsOf(k)[2].t - FiringsOf(k)[1].t < DebounceMs
\* both threads are between handlers and the flag of kind k is down
Settled(k) == pcHook = HookIdle /\ pcPoll = PollIdle /\ ~pending[k]

\* C9: two hook firings of one kind less than 1.0 s apart produce exactly one
\* emitted signal of that kind, wherever the poll timeouts fall: never more
\* than one, and exactly one as soon as the flag has been drained.
C9_Debounce ==
    \A k \in Kinds :
        TwoCloseFirings(k) =>
            /\ Count(emitted, k) <= 1
            /\ Count(AcceptedKinds, k) = 1
            /\ Settled(k) => Count(emitted, k) = 1

\* two close firings with a poll timeout between them, drained
C9_Witness ==
    \E k \in Kinds :
        /\ TwoCloseFirings(k) /\ Settled(k)
        /\ FiringsOf(k)[1].tick # FiringsOf(k)[2].tick
        /\ Count(emitted, k) = 1

\* C10: firings of different kinds accepted between the same two poll
\* timeouts have their signals emitted in the order in which the firings
\* arrived on the hook thread.
C10_ArrivalOrder ==
    \A i, j \in 1..Len(accepted) :
        (/\ i < j
         /\ accepted[i].kind # accepted[j].kind
         /\ accepted[i].tick = accepted[j].tick
         /\ Count(AcceptedKinds, accepted[i].kind) = 1
         /\ Count(AcceptedKinds, accepted[j].kind) = 1
         /\ Count(emitted, accepted[i].kind) = 1
         /\ Count(emitted, accepted[j].kind) = 1)
        => PositionOf(emitted, accepted[i].kind) < PositionOf(emitted, accepted[j].kind)

\* C11: under every interleaving of the hook callbacks with check_hotkey_status
\* no accepted firing is dispatched twice and none is lost: a kind never has
\* more signals than accepted firings, a flag is up or a signal about to be
\* emitted only for a kind with an accepted firing behind it, and once both
\* threads are between handlers and the flag is down no accepted firing of the
\* kind is still waiting for its signal.
C11_DrainAtomic ==
    \A k \in Kinds :
        /\ Count(emitted, k) <= Count(AcceptedKinds, k)
        /\ Count(emitted, k) + (IF pending[k] \/ (pcPoll.kind = k /\ pcPoll.at = "emit")
                                THEN 1 ELSE 0) <= Count(AcceptedKinds, k)
        /\ Settled(k) => ~owed[k]
        /\ Settled(k) /\ Count(AcceptedKinds, k) > 0 => Count(emitted, k) > 0

\* two firings of one kind were accepted, one of them at the instant of a poll
\* timeout, and everything is drained
C11_Witness ==
    \E k \in Kinds :
        /\ Settled(k) /\ Count(AcceptedKinds, k) = 2 /\ Count(emitted, k) >= 1
        /\ \E i \in 1..Len(accepted) :
              accepted[i].kind = k /\ accepted[i].tick = accepted[i].t /\ accepted[i].t > 0


PressesOf(k) == LET isK(p) == p.kind = k IN SelectSeq(presses, isK)

\* C20: with the callbacks registered twice one key press gives one signal of
\* its kind (no press is accepted twice, no kind has more signals than
\* presses, and a single press is dispatched once drained), and once
\* unregister_hotkeys has run, a second time or after a failed registration
\* too, no callback is registered and no further firing is accepted.
C20_RegisterIdempotent ==
    /\ \A i, j \in 1..Len(accepted) : i < j => accepted[i].press # accepted[j].press
    /\ \A k \in Kinds :
          /\ Count(emitted, k) <= Len(PressesOf(k))
          /\ (Len(PressesOf(k)) = 1 /\ Settled(k)) => Count(emitted, k) = 1
    /\ listener = "none" => hooks = 0 /\ Len(accepted) = stopped

\* a key press that ran two callbacks was dispatched once, and
\* unregister_hotkeys has since been called twice
C20_Witness ==
    /\ listener = "none" /\ nhook = 3 /\ hooks = 0
    /\ \E k \in Kinds :
          /\ Len(PressesOf(k)) = 1 /\ PressesOf(k)[1].handlers = 2
          /\ Settled(k) /\ Count(emitted, k) = 1

\* C32: a press of F11 is accepted by the hook like F12 and Ctrl+F12, and once
\* a later poll has drained the flags it has produced a signal that runs
\* take_auto_save_screenshot.
C32_AutoSaveDispatched ==
    \A i \in 1..Len(presses) :
        presses[i].kind = "auto_save" =>
            /\ presses[i].handlers > 0
            /\ (/\ pcHook = HookIdle /\ pcPoll = PollIdle
                /\ \A k \in Kinds : ~pending[k]
                /\ lastTick > presses[i].tick) => Count(emitted, "auto_save") >= 1

\* a step of a callback on the hook thread, and the kind of its hotkey
HookStep == pcHook' # pcHook \/ fired' # fired
HookStepKind == IF pcHook.kind # "" THEN pcHook.kind ELSE fired'[Len(fired')].kind

\* C33: a step of a hook-thread callback changes nothing but the pending flag
\* and the last_hotkey_time entry of its own kind: the document, its baseline,
\* the files, the windows and the float ball, the signals emitted, the poll and
\* the registration are as before.
C33_HookTouchesOnlyBridge ==
    [][HookStep =>
          /\ docVars' = docVars /\ uiVars' = uiVars
          /\ emitted' = emitted /\ pcPoll' = pcPoll /\ lastTick' = lastTick
          /\ hooks' = hooks /\ listener' = listener
          /\ \A k \in Kinds \ {HookStepKind} :
                pending'[k] = pending[k] /\ last_hotkey_time'[k] = last_hotkey_time[k]]_vars

\* a callback has stamped and flagged its kind and no other
C33_Witness ==
    \E k \in Kinds :
       /\ pending[k] /\ last_hotkey_time[k] # NoTime /\ pcHook = HookIdle
       /\ \A j \in Kinds \ {k} : ~pending[j] /\ last_hotkey_time[j] = NoTime

\* C36: an aborted close keeps the trigger bridge alive: when the close of
\* the window is aborted (Cancel at the save prompt, or a failed save that
\* the user declines to discard) with the hotkey hook registered and the poll
\* timer running, the hook is still registered and the 500 ms timer is still
\* running afterwards, so that a later F12 still produces a capture command
C36_AbortedCloseKeepsBridge ==
    [][(/\ ignored' = ignored + 1
        /\ hooks > 0 /\ listener = "running" /\ hotkey_check_timer = "active")
       => (/\ hooks' > 0 /\ listener' = "running"
           /\ hotkey_check_timer' = "active")]_vars

----------------------------------------------------------------------------
(* Properties of the windows, checked under SpecCapture.                     *)

\* C12: whatever the capture (fullscreen, region, auto-save) and however it
\* ends (commit, dialog rejected, capture failure, exception, click
\* without drag, empty selection), the float ball and the main window are
\* visible after it exactly if they were visible right before it began.
C12_OverlayRestored ==
    (cap.kind # "" /\ cap.exit # "") => cap.post = cap.pre

\* C13: scenario C, a fullscreen capture with no primary screen or a null
\* pixmap returns failure with no capture under way, the float ball visible
\* exactly if it was before, nothing staged and the in-memory document as
\* it was.
C13_ScenarioC ==
    (cap.kind = "fullscreen" /\ cap.exit = "failure") =>
        /\ ~cap.ret
        /\ shot.at = "idle"
        /\ cap.post.ball = cap.pre.ball
        /\ cap.staged = ""
        /\ cap.mem_post = cap.mem_pre

\* C29: in every capture path (F12 full screen, region selection, automatic
\* capture in full-screen mode) the float ball is not on screen at the moment
\* the screen is grabbed.
C29_OverlayHiddenInGrab == cap.grabbed => ~cap.ball_in_grab

\* C30: an ESC pressed while the selection window is open closes it, leaves no
\* capture under way, shows the float ball and the main window as they were
\* before the capture and appends nothing to the document.
C30_EscCancels ==
    cap.esc =>
        /\ cap.exit = "esc"
        /\ ~capture_window.open
        /\ cap.post = cap.pre
        /\ cap.mem_post = cap.mem_pre

ManualKinds == {"fullscreen", "region"}

\* C31: a capture taken by hand is handed to add_screenshot exactly if its
\* dialog was accepted, and then with the caption typed in the dialog; a
\* rejected or closed dialog appends nothing; an automatic capture is handed
\* over once, with the default caption, which is not empty, and opens no
\* dialog.  The append stands in the in-memory document unless add_screenshot
\* itself raised.
C31_CommitByMode ==
    /\ shot.at = "dialog" => cap.kind \in ManualKinds
    /\ (cap.kind \in ManualKinds /\ cap.exit # "") =>
          /\ cap.dialog = "rejected" => cap.mem_post = cap.mem_pre
          /\ cap.mem_post # cap.mem_pre => cap.dialog = "accepted"
    /\ (cap.kind \in ManualKinds /\ cap.dialog = "accepted" /\ shot.at = "adding") =>
          /\ obs.caller \in {"add", "add_screenshot"} /\ obs.text = cap.text
          /\ cap.raised <=> obs.caller = "add_screenshot"
          /\ ~cap.raised => obs.mem = AppendCapture(cap.mem_pre, obs.img, cap.text)
    /\ (cap.kind = "auto" /\ shot.at = "adding") =>
          /\ cap.dialog = ""
          /\ obs.caller \in {"add", "add_screenshot"}
          /\ obs.text = DefaultText /\ DefaultText # ""
          /\ cap.raised <=> obs.caller = "add_screenshot"
          /\ ~cap.raised => obs.mem = AppendCapture(cap.mem_pre, obs.img, DefaultText)
    /\ (cap.kind = "auto" /\ cap.exit = "commit" /\ ~cap.raised) =>
          /\ cap.dialog = ""
          /\ Cardinality(Captured(cap.mem_post.paras) \ Captured(cap.mem_pre.paras)) = 1

C31_Witness ==
    /\ cap.kind \in ManualKinds /\ cap.dialog = "accepted" /\ cap.exit = "commit"
    /\ cap.text # "" /\ cap.mem_post # cap.mem_pre

====
